---- MODULE Spec2Model ----
(***************************************************************************)
(* Model of the catalogue data layer of tienda/models.py: Categoria,       *)
(* Producto, StockTalla and ImagenProducto rows held by the relational     *)
(* store, the overridden save() methods, the cascading deletes declared on *)
(* the foreign keys, and the derived stock properties.                     *)
(***************************************************************************)
EXTENDS Integers, Sequences, FiniteSets, TLC

\* ------------------------------------------------------------------ bounds
NumProductos == 2
NumImagenes == 2

\* the two categories of the catalogue: 1 holds apparel, 2 holds accessories
CatIds == {1, 2}
ProdIds == 1..NumProductos
\* the StockTalla rows the model saves
StockIds == {1, 2}
ImgIds == 1..NumImagenes
\* two requests, each running one save() at a time
Peticiones == {1, 2}

\* ------------------------------------------------------ values of the fields
\* StockTalla.TALLA_CHOICES
TALLA_CHOICES == {"S", "M", "L", "XL"}
\* Tallas the model saves rows for
TallasUsadas == {t \in TALLA_CHOICES : t \in {"S", "M"}}
\* Quantities given to save(): the boundaries of estado_stock and a negative
Cantidades == {-1, 0, 1, 5, 6}
\* stock_accesorio values given to Producto.save
StocksAccesorio == {-1, 0}
\* precio values given to Producto.save
Precios == {-1, 0, 9990}
\* Names given to Producto.save, as sequences of characters
Nombres == { <<"a">>, <<"A">>, <<"!">>, <<"a", " ", "!", "b">>, <<"é">> }
\* Slugs assigned explicitly before Producto.save; <<>> is the blank slug
SlugsDados == { <<>>, <<"a">>, <<"x">> }

\* ------------------------------------------------------------------- state
VARIABLES
    categorias,    \* Categoria rows: id -> [tipo]
    productos,     \* Producto rows: id -> [nombre, slug, categoria, precio, stock_accesorio]
    stock_tallas,  \* StockTalla rows: id -> [producto, talla, cantidad]
    imagenes,      \* ImagenProducto rows: id -> [producto, es_principal]
    peticiones,    \* save() calls in flight: peticion -> its position and instance
    lastOp         \* the last completed call and what it returned or raised

vars == <<categorias, productos, stock_tallas, imagenes, peticiones, lastOp>>
filas == <<categorias, productos, stock_tallas, imagenes>>

\* ----------------------------------------------------------------- slugify
\* unicodedata.normalize("NFKD", value).encode("ascii", "ignore"): an accented
\* letter decomposes to its base letter and a combining mark, which is dropped.
Ascii(c) ==
    CASE c = "é" -> "e"
      [] c = "ñ" -> "n"
      [] OTHER -> c

Lower(c) ==
    CASE c = "A" -> "a"
      [] c = "B" -> "b"
      [] OTHER -> c

EsEspacio(c) == c = " "
\* \w of the regular expression, on the model's alphabet
EsPalabra(c) == c \in {"a", "b", "e", "n", "x", "_"}

RECURSIVE MapSeq(_, _)
MapSeq(s, paso) ==
    IF s = <<>> THEN <<>>
    ELSE <<IF paso = "ascii" THEN Ascii(Head(s)) ELSE Lower(Head(s))>> \o MapSeq(Tail(s), paso)

\* re.sub(r"[^\w\s-]", "", value)
RECURSIVE QuitarInvalidos(_)
QuitarInvalidos(s) ==
    IF s = <<>> THEN <<>>
    ELSE IF EsPalabra(Head(s)) \/ EsEspacio(Head(s)) \/ Head(s) = "-"
         THEN <<Head(s)>> \o QuitarInvalidos(Tail(s))
         ELSE QuitarInvalidos(Tail(s))

\* re.sub(r"[-\s]+", "-", value): each run of hyphens and spaces becomes one hyphen
RECURSIVE UnirGuiones(_, _)
UnirGuiones(s, enRacha) ==
    IF s = <<>> THEN <<>>
    ELSE IF EsEspacio(Head(s)) \/ Head(s) = "-"
         THEN (IF enRacha THEN <<>> ELSE <<"-">>) \o UnirGuiones(Tail(s), TRUE)
         ELSE <<Head(s)>> \o UnirGuiones(Tail(s), FALSE)

\* .strip("-_")
RECURSIVE StripIzq(_)
StripIzq(s) ==
    IF s # <<>> /\ Head(s) \in {"-", "_"} THEN StripIzq(Tail(s)) ELSE s

RECURSIVE StripDer(_)
StripDer(s) ==
    IF s # <<>> /\ s[Len(s)] \in {"-", "_"} THEN StripDer(SubSeq(s, 1, Len(s) - 1)) ELSE s

\* django.utils.text.slugify(value)
Slugify(nombre) ==
    StripDer(StripIzq(UnirGuiones(QuitarInvalidos(MapSeq(MapSeq(nombre, "ascii"), "lower")), FALSE)))


\* ------------------------------------------------------- the store's helpers
NingunaFila == <<>>
Libre == [pc |-> "libre"]
Inicial == [op |-> "ninguna", ok |-> TRUE]

\* models.Model.save(): UPDATE the row with this primary key, or INSERT it
Guardar(tabla, id, fila) ==
    [k \in DOMAIN tabla \cup {id} |-> IF k = id THEN fila ELSE tabla[k]]

\* the rows that are left when those with a key in `ids` are deleted
Borrar(tabla, ids) ==
    [k \in DOMAIN tabla \ ids |-> tabla[k]]

\* related_name='productos': the products of a category
ProductosDe(prods, c) == {p \in DOMAIN prods : prods[p].categoria = c}
\* Mutant of StockTallasDe: the relation finds no rows, as when the delete
\* does not follow StockTalla.producto
StockTallasDeNinguna(stocks, p) == {}

\* related_name='stock_tallas': the StockTalla rows of a product
StockTallasDe(stocks, p) == {k \in DOMAIN stocks : stocks[k].producto = p}
\* related_name='imagenes': the ImagenProducto rows of a product
ImagenesDe(imgs, p) == {k \in DOMAIN imgs : imgs[k].producto = p}

\* ---------------------------------------------------------------- Producto
\* Producto.save: if not self.slug: self.slug = slugify(self.nombre)
EnsureSlug(slug, nombre) ==
    IF slug = <<>> THEN Slugify(nombre) ELSE slug

\* Mutant of SlugLibre: the field is declared without unique=True
SlugLibreSinUnique(prods, id, slug) == TRUE

\* slug = models.SlugField(unique=True): no other row holds this slug
SlugLibre(prods, id, slug) ==
    \A q \in DOMAIN prods \ {id} : prods[q].slug # slug

\* categoria = models.ForeignKey(Categoria): the referenced row exists
CategoriaExiste(cats, c) == c \in DOMAIN cats

\* Producto.save(): the slug is fixed, then the row is written; the store raises
\* IntegrityError on a duplicate slug or a missing category and writes nothing.
ProductoSave(id, nombre, slug, cat, precio, stock) ==
    LET s == EnsureSlug(slug, nombre)
        fila == [nombre |-> nombre, slug |-> s, categoria |-> cat,
                 precio |-> precio, stock_accesorio |-> stock]
        ok == SlugLibre(productos, id, s) /\ CategoriaExiste(categorias, cat)
    IN  /\ productos' = IF ok THEN Guardar(productos, id, fila) ELSE productos
        /\ lastOp' = [op |-> "Producto.save", ok |-> ok]
        /\ UNCHANGED <<categorias, stock_tallas, imagenes, peticiones>>

\* Producto.delete(): on_delete=CASCADE on StockTalla.producto and
\* ImagenProducto.producto; delete() returns the number of rows it removed.
ProductoDelete(id) ==
    LET sts == StockTallasDe(stock_tallas, id)
        ims == ImagenesDe(imagenes, id)
    IN  /\ id \in DOMAIN productos
        /\ productos' = Borrar(productos, {id})
        /\ stock_tallas' = Borrar(stock_tallas, sts)
        /\ imagenes' = Borrar(imagenes, ims)
        /\ lastOp' = [op |-> "Producto.delete", id |-> id, ok |-> TRUE,
                      borradas |-> [productos |-> 1, stock_tallas |-> Cardinality(sts),
                                    imagenes |-> Cardinality(ims)]]
        /\ UNCHANGED <<categorias, peticiones>>

\* --------------------------------------------------------------- Categoria
\* Categoria.save(): no override, the row is written
CategoriaSave(id, tipo) ==
    /\ categorias' = Guardar(categorias, id, [tipo |-> tipo])
    /\ lastOp' = [op |-> "Categoria.save", ok |-> TRUE]
    /\ UNCHANGED <<productos, stock_tallas, imagenes, peticiones>>

\* Categoria.delete(): on_delete=CASCADE on Producto.categoria, and from each
\* deleted product on to its StockTalla and ImagenProducto rows.
CategoriaDelete(id) ==
    LET ps == ProductosDe(productos, id)
        sts == UNION {StockTallasDe(stock_tallas, p) : p \in ps}
        ims == UNION {ImagenesDe(imagenes, p) : p \in ps}
    IN  /\ id \in DOMAIN categorias
        /\ categorias' = Borrar(categorias, {id})
        /\ productos' = Borrar(productos, ps)
        /\ stock_tallas' = Borrar(stock_tallas, sts)
        /\ imagenes' = Borrar(imagenes, ims)
        /\ lastOp' = [op |-> "Categoria.delete", id |-> id, ok |-> TRUE,
                      borradas |-> [productos |-> Cardinality(ps), stock_tallas |-> Cardinality(sts),
                                    imagenes |-> Cardinality(ims)]]
        /\ UNCHANGED peticiones

\* -------------------------------------------------------------- StockTalla
\* producto = models.ForeignKey(Producto): the referenced row exists
ProductoExiste(prods, p) == p \in DOMAIN prods

\* unique_together = ['producto', 'talla']
TallaLibre(stocks, id, p, talla) ==
    \A k \in DOMAIN stocks \ {id} : ~(stocks[k].producto = p /\ stocks[k].talla = talla)

\* StockTalla.save(): no override; validators are not run by save()
StockTallaSave(id, p, talla, cantidad) ==
    LET fila == [producto |-> p, talla |-> talla, cantidad |-> cantidad]
        ok == ProductoExiste(productos, p) /\ TallaLibre(stock_tallas, id, p, talla)
    IN  /\ stock_tallas' = IF ok THEN Guardar(stock_tallas, id, fila) ELSE stock_tallas
        /\ lastOp' = [op |-> "StockTalla.save", ok |-> ok]
        /\ UNCHANGED <<categorias, productos, imagenes, peticiones>>

\* ---------------------------------------------------------- ImagenProducto
\* the rows filter(producto=self.producto, es_principal=True) selects
Principales(imgs, p) == {k \in DOMAIN imgs : imgs[k].producto = p /\ imgs[k].es_principal}

\* Mutant of LimpiarPrincipales: the update() is left out
LimpiarPrincipalesOmitido(imgs, p) == imgs

\* ImagenProducto.objects.filter(producto=p, es_principal=True).update(es_principal=False)
LimpiarPrincipales(imgs, p) ==
    [k \in DOMAIN imgs |->
        IF imgs[k].producto = p /\ imgs[k].es_principal
        THEN [imgs[k] EXCEPT !.es_principal = FALSE]
        ELSE imgs[k]]

\* Mutant of TrasLimpiar: the condition is inverted (if not self.es_principal)
TrasLimpiarInvertido(imgs, p, es_principal) ==
    IF ~es_principal THEN LimpiarPrincipales(imgs, p) ELSE imgs

\* the first statement of ImagenProducto.save: if self.es_principal: ...update(...)
TrasLimpiar(imgs, p, es_principal) ==
    IF es_principal THEN LimpiarPrincipales(imgs, p) ELSE imgs

\* the second statement of ImagenProducto.save: super().save()
TrasGuardar(imgs, prods, id, p, es_principal) ==
    IF ProductoExiste(prods, p)
    THEN Guardar(imgs, id, [producto |-> p, es_principal |-> es_principal])
    ELSE imgs

\* ImagenProducto.save(), run without another save in between
ImagenSave(id, p, es_principal) ==
    /\ imagenes' = TrasGuardar(TrasLimpiar(imagenes, p, es_principal), productos, id, p, es_principal)
    /\ lastOp' = [op |-> "ImagenProducto.save", id |-> id, ok |-> ProductoExiste(productos, p),
                  limpiadas |-> IF es_principal THEN Principales(imagenes, p) ELSE {}]
    /\ UNCHANGED <<categorias, productos, stock_tallas, peticiones>>


\* ------------------------------------------------------- derived properties
RECURSIVE SumaCantidades(_, _)
\* sum(st.cantidad for st in ...)
SumaCantidades(stocks, ks) ==
    IF ks = {} THEN 0
    ELSE LET k == CHOOSE x \in ks : TRUE
         IN  stocks[k].cantidad + SumaCantidades(stocks, ks \ {k})

\* self.categoria.tipo == 'accesorio'
EsAccesorio(cats, prods, p) == cats[prods[p].categoria].tipo = "accesorio"

\* Producto.tiene_stock
TieneStock(cats, prods, stocks, p) ==
    IF EsAccesorio(cats, prods, p)
    THEN prods[p].stock_accesorio > 0
    ELSE \E k \in StockTallasDe(stocks, p) : stocks[k].cantidad > 0

\* Mutant of StockTotal: the branch on the category type is lost
StockTotalSinRama(cats, prods, stocks, p) ==
    SumaCantidades(stocks, StockTallasDe(stocks, p))

\* Producto.stock_total
StockTotal(cats, prods, stocks, p) ==
    IF EsAccesorio(cats, prods, p)
    THEN prods[p].stock_accesorio
    ELSE SumaCantidades(stocks, StockTallasDe(stocks, p))

\* StockTalla.estado_stock
EstadoStock(cantidad) ==
    IF cantidad = 0 THEN "sin_stock"
    ELSE IF cantidad <= 5 THEN "poco_stock"
    ELSE "buen_stock"

\* a read of producto.tiene_stock and producto.stock_total
LeerStock(p) ==
    /\ p \in DOMAIN productos
    /\ lastOp' = [op |-> "Producto.stock", id |-> p, ok |-> TRUE,
                  tiene_stock |-> TieneStock(categorias, productos, stock_tallas, p),
                  stock_total |-> StockTotal(categorias, productos, stock_tallas, p)]
    /\ UNCHANGED <<categorias, productos, stock_tallas, imagenes, peticiones>>

\* a read of stock_talla.estado_stock
LeerEstadoStock(k) ==
    /\ k \in DOMAIN stock_tallas
    /\ lastOp' = [op |-> "StockTalla.estado_stock", id |-> k, ok |-> TRUE,
                  estado |-> EstadoStock(stock_tallas[k].cantidad)]
    /\ UNCHANGED <<categorias, productos, stock_tallas, imagenes, peticiones>>

\* ------------------------------------------------------------ specifications
\* A catalogue in which the administrator has created one apparel category and
\* one accessory category, and nothing else yet.
CategoriasBase == (1 :> [tipo |-> "polera"]) @@ (2 :> [tipo |-> "accesorio"])

InitBase ==
    /\ categorias = CategoriasBase
    /\ productos = NingunaFila
    /\ stock_tallas = NingunaFila
    /\ imagenes = NingunaFila
    /\ peticiones = [t \in Peticiones |-> Libre]
    /\ lastOp = Inicial

\* Images: products are created and deleted, images are saved one call at a time.
NombresImagen == { <<"a">>, <<"é">> }

NextImagen ==
    \/ \E id \in ProdIds, n \in NombresImagen : ProductoSave(id, n, <<>>, 1, 0, 0)
    \/ \E id \in ProdIds : ProductoDelete(id)
    \/ \E id \in ImgIds, p \in ProdIds, b \in BOOLEAN : ImagenSave(id, p, b)

SpecImagen == InitBase /\ [][NextImagen]_vars


\* Cascades: categories, products and their rows are created and deleted.
NextCascada ==
    \/ \E c \in CatIds : CategoriaSave(c, "polera")
    \/ \E c \in CatIds : CategoriaDelete(c)
    \/ \E id \in ProdIds, n \in NombresImagen, c \in CatIds : ProductoSave(id, n, <<>>, c, 0, 0)
    \/ \E id \in ProdIds : ProductoDelete(id)
    \/ \E k \in StockIds, p \in ProdIds : StockTallaSave(k, p, "S", 1)
    \/ \E k \in ImgIds, p \in ProdIds : ImagenSave(k, p, FALSE)

SpecCascada == InitBase /\ [][NextCascada]_vars

\* Slugs: products are created with a blank or an explicit slug, and stored
\* products are loaded, renamed and saved again.
\* producto = Producto.objects.get(pk=id); producto.nombre = nombre; producto.save()
ProductoRenombrar(id, nombre) ==
    /\ id \in DOMAIN productos
    /\ ProductoSave(id, nombre, productos[id].slug, productos[id].categoria,
                    productos[id].precio, productos[id].stock_accesorio)

\* Producto(nombre=nombre, slug=slug, ...).save() of a product not stored yet
ProductoCrear(id, nombre, slug) ==
    /\ id \notin DOMAIN productos
    /\ ProductoSave(id, nombre, slug, 1, 0, 0)

NextSlug ==
    \/ \E id \in ProdIds, n \in Nombres, s \in SlugsDados : ProductoCrear(id, n, s)
    \/ \E id \in ProdIds, n \in Nombres : ProductoRenombrar(id, n)
    \/ \E id \in ProdIds : ProductoDelete(id)

SpecSlug == InitBase /\ [][NextSlug]_vars

\* Stock: products of both kinds of category, their StockTalla rows, and reads
\* of the derived stock properties.
CantidadesStock == {-1, 0, 1}
StocksAccesorioStock == {0, 2}

NextStock ==
    \/ \E id \in ProdIds, n \in NombresImagen, c \in CatIds, st \in StocksAccesorioStock :
            ProductoSave(id, n, <<>>, c, 0, st)
    \/ \E k \in StockIds, p \in ProdIds, t \in TallasUsadas, q \in CantidadesStock :
            StockTallaSave(k, p, t, q)
    \/ \E p \in ProdIds : LeerStock(p)

SpecStock == InitBase /\ [][NextStock]_vars

\* Field values: rows are saved with values on both sides of the validators'
\* limits, and the stock level of a row is read.
NextValores ==
    \/ \E id \in ProdIds, n \in NombresImagen, pr \in Precios, st \in StocksAccesorio :
            ProductoSave(id, n, <<>>, 2, pr, st)
    \/ \E k \in StockIds, p \in ProdIds, q \in Cantidades : StockTallaSave(k, p, "S", q)
    \/ \E k \in StockIds : LeerEstadoStock(k)

SpecValores == InitBase /\ [][NextValores]_vars

\* ----------------------------------------------------- overlapping save()s
\* Two requests run save() at the same time. No save() opens a transaction, so
\* each statement that reaches the store is a step of its own, and another
\* request's statements may run between two of them.

\* ImagenProducto.save, up to and including its update(): the rows are cleared
\* and the call stands before super().save()
ImagenSaveLimpiar(t, id, p, es_principal) ==
    /\ peticiones[t] = Libre
    /\ imagenes' = TrasLimpiar(imagenes, p, es_principal)
    /\ peticiones' = [peticiones EXCEPT ![t] =
            [pc |-> "img_guardar", id |-> id, producto |-> p, es_principal |-> es_principal]]
    /\ UNCHANGED <<categorias, productos, stock_tallas, lastOp>>

\* ImagenProducto.save, its super().save(): the row is written and the call returns
ImagenSaveGuardar(t) ==
    LET r == peticiones[t]
    IN  /\ r.pc = "img_guardar"
        /\ imagenes' = TrasGuardar(imagenes, productos, r.id, r.producto, r.es_principal)
        /\ peticiones' = [peticiones EXCEPT ![t] = Libre]
        /\ UNCHANGED <<categorias, productos, stock_tallas, lastOp>>

NextCarreraImagen ==
    \/ \E id \in ProdIds, n \in NombresImagen : ProductoSave(id, n, <<>>, 1, 0, 0)
    \/ \E t \in Peticiones, id \in ImgIds, p \in ProdIds, b \in BOOLEAN :
            ImagenSaveLimpiar(t, id, p, b)
    \/ \E t \in Peticiones : ImagenSaveGuardar(t)

SpecCarreraImagen == InitBase /\ [][NextCarreraImagen]_vars

\* Producto.save, its first statement: the slug is fixed on the instance in
\* memory and the call stands before super().save()
ProductoSaveSlug(t, id, nombre, slug) ==
    /\ peticiones[t] = Libre
    /\ peticiones' = [peticiones EXCEPT ![t] =
            [pc |-> "prod_guardar", id |-> id, nombre |-> nombre,
             slug |-> EnsureSlug(slug, nombre)]]
    /\ UNCHANGED <<categorias, productos, stock_tallas, imagenes, lastOp>>

\* Producto.save, its super().save(): the store writes the row or raises
\* IntegrityError, and the caller holds the outcome
ProductoSaveGuardar(t) ==
    LET r == peticiones[t]
        fila == [nombre |-> r.nombre, slug |-> r.slug, categoria |-> 1,
                 precio |-> 0, stock_accesorio |-> 0]
        ok == SlugLibre(productos, r.id, r.slug) /\ CategoriaExiste(categorias, 1)
    IN  /\ r.pc = "prod_guardar"
        /\ productos' = IF ok THEN Guardar(productos, r.id, fila) ELSE productos
        /\ peticiones' = [peticiones EXCEPT ![t] =
                [pc |-> "hecho", id |-> r.id, slug |-> r.slug, ok |-> ok,
                 insert |-> r.id \notin DOMAIN productos]]
        /\ UNCHANGED <<categorias, stock_tallas, imagenes, lastOp>>

\* the caller is done with the outcome and the request can run another save()
Retornar(t) ==
    /\ peticiones[t].pc = "hecho"
    /\ peticiones' = [peticiones EXCEPT ![t] = Libre]
    /\ UNCHANGED <<categorias, productos, stock_tallas, imagenes, lastOp>>

NombresCarrera == { <<"a">>, <<"A">>, <<"é">> }
SlugsCarrera == { <<>>, <<"a">> }

NextCarreraSlug ==
    \/ \E t \in Peticiones, id \in ProdIds, n \in NombresCarrera, s \in SlugsCarrera :
            ProductoSaveSlug(t, id, n, s)
    \/ \E t \in Peticiones : ProductoSaveGuardar(t)
    \/ \E t \in Peticiones : Retornar(t)

SpecCarreraSlug == InitBase /\ [][NextCarreraSlug]_vars

\* ------------------------------------------------------------------ claims
\* C1: whatever ImagenProducto.save calls (run one at a time) and Producto
\* deletions have happened, each product has at most one image stored with
\* es_principal true.
C1_UnaPrincipalPorProducto ==
    \A p \in ProdIds : Cardinality(Principales(imagenes, p)) <= 1

\* C1's case: a save has just completed on a product that holds several images,
\* one of them primary.
C1_Witness ==
    /\ lastOp.op = "ImagenProducto.save" /\ lastOp.ok
    /\ \E p \in ProdIds :
        /\ Cardinality(ImagenesDe(imagenes, p)) >= 2
        /\ Cardinality(Principales(imagenes, p)) = 1

\* C3: a completed save of image b of product p with es_principal true leaves b
\* as the only primary image of p, and every other image of p that was primary
\* is stored with es_principal false, for a new b and for a stored one.
C3_PrincipalEsLaGuardada ==
    [][\A b \in ImgIds, p \in ProdIds :
        (ImagenSave(b, p, TRUE) /\ ProductoExiste(productos, p)) =>
            /\ Principales(imagenes', p) = {b}
            /\ \A k \in Principales(imagenes, p) \ {b} :
                    k \in DOMAIN imagenes' /\ ~imagenes'[k].es_principal]_vars

\* C3's case: the completed save of a primary image took the flag from another
\* image of the same product.
C3_Witness ==
    /\ lastOp.op = "ImagenProducto.save" /\ lastOp.ok
    /\ lastOp.limpiadas \ {lastOp.id} # {}
    /\ imagenes[lastOp.id].es_principal


\* every StockTalla and ImagenProducto row references a stored Producto, and
\* every Producto a stored Categoria
SinHuerfanos ==
    /\ \A k \in DOMAIN stock_tallas : stock_tallas[k].producto \in DOMAIN productos
    /\ \A k \in DOMAIN imagenes : imagenes[k].producto \in DOMAIN productos
    /\ \A p \in DOMAIN productos : productos[p].categoria \in DOMAIN categorias

\* the rows of `tabla` whose product is not in `ps` are the rows of `tabla2`
QuedanLasDemas(tabla, tabla2, ps) ==
    /\ DOMAIN tabla2 = {k \in DOMAIN tabla : tabla[k].producto \notin ps}
    /\ \A k \in DOMAIN tabla2 : tabla2[k] = tabla[k]

\* C8: no step leaves an orphan; deleting a Producto removes exactly it and the
\* StockTalla and ImagenProducto rows that reference it; deleting a Categoria
\* removes exactly it, its products and those products' rows; all other rows
\* stay as they were.
C8_CascadaSinHuerfanos ==
    [][/\ SinHuerfanos'
       /\ \A id \in ProdIds : ProductoDelete(id) =>
            /\ DOMAIN productos' = DOMAIN productos \ {id}
            /\ \A q \in DOMAIN productos' : productos'[q] = productos[q]
            /\ QuedanLasDemas(stock_tallas, stock_tallas', {id})
            /\ QuedanLasDemas(imagenes, imagenes', {id})
            /\ categorias' = categorias
       /\ \A c \in CatIds : CategoriaDelete(c) =>
            LET ps == {p \in DOMAIN productos : productos[p].categoria = c}
            IN  /\ DOMAIN categorias' = DOMAIN categorias \ {c}
                /\ \A d \in DOMAIN categorias' : categorias'[d] = categorias[d]
                /\ DOMAIN productos' = DOMAIN productos \ ps
                /\ \A q \in DOMAIN productos' : productos'[q] = productos[q]
                /\ QuedanLasDemas(stock_tallas, stock_tallas', ps)
                /\ QuedanLasDemas(imagenes, imagenes', ps)]_vars

\* C8's case: a category was deleted and took a product, a StockTalla row and an
\* image with it, while a product of another category keeps its rows.
C8_Witness ==
    /\ lastOp.op = "Categoria.delete"
    /\ lastOp.borradas.productos >= 1
    /\ lastOp.borradas.stock_tallas >= 1
    /\ lastOp.borradas.imagenes >= 1
    /\ \E p \in DOMAIN productos :
        StockTallasDe(stock_tallas, p) # {} /\ ImagenesDe(imagenes, p) # {}


\* C4 as claimed: once a product is stored, loading it, changing its nombre to
\* any name and saving it leaves the stored slug as it was.
C4_SlugNoCambia ==
    [][\A id \in ProdIds, n \in Nombres :
        (ProductoRenombrar(id, n) /\ lastOp'.ok) =>
            productos'[id].slug = productos[id].slug]_vars

\* the cantidad of StockTalla row k when it belongs to product p, else 0
CantidadDe(k, p) ==
    IF k \in DOMAIN stock_tallas /\ stock_tallas[k].producto = p
    THEN stock_tallas[k].cantidad
    ELSE 0

\* C6: a read of the stock properties of product p changes no row; for an
\* 'accesorio' category it returns stock_accesorio and stock_accesorio > 0
\* whatever StockTalla rows p owns; for any other category it returns the sum
\* of cantidad over p's own rows (0 without rows) and whether one of them has
\* cantidad > 0, whatever stock_accesorio is.
C6_LecturasDeStock ==
    [][\A p \in ProdIds : LeerStock(p) =>
        /\ filas' = filas
        /\ IF categorias[productos[p].categoria].tipo = "accesorio"
           THEN /\ lastOp'.stock_total = productos[p].stock_accesorio
                /\ lastOp'.tiene_stock = (productos[p].stock_accesorio > 0)
           ELSE /\ lastOp'.stock_total = CantidadDe(1, p) + CantidadDe(2, p)
                /\ lastOp'.tiene_stock = (CantidadDe(1, p) > 0 \/ CantidadDe(2, p) > 0)]_vars

\* C6's case: the stock of an accessory without stock was read while it owns a
\* StockTalla row with units, and an apparel product owns rows too.
C6_Witness ==
    /\ lastOp.op = "Producto.stock"
    /\ lastOp.id \in DOMAIN productos
    /\ categorias[productos[lastOp.id].categoria].tipo = "accesorio"
    /\ productos[lastOp.id].stock_accesorio = 0
    /\ \E k \in StockTallasDe(stock_tallas, lastOp.id) : stock_tallas[k].cantidad > 0
    /\ ~lastOp.tiene_stock

\* C7 as claimed: every stored precio, stock_accesorio and cantidad is >= 0.
C7_SinNegativos ==
    /\ \A p \in DOMAIN productos :
        productos[p].precio >= 0 /\ productos[p].stock_accesorio >= 0
    /\ \A k \in DOMAIN stock_tallas : stock_tallas[k].cantidad >= 0

\* C9 as claimed: for every stored cantidad q, estado_stock is 'sin_stock' iff
\* q = 0, 'poco_stock' iff 1 <= q <= 5 and 'buen_stock' iff q > 5.
C9_EstadoParticiona ==
    (lastOp.op = "StockTalla.estado_stock" /\ lastOp.id \in DOMAIN stock_tallas) =>
        LET q == stock_tallas[lastOp.id].cantidad
        IN  /\ (lastOp.estado = "sin_stock") <=> (q = 0)
            /\ (lastOp.estado = "poco_stock") <=> (1 <= q /\ q <= 5)
            /\ (lastOp.estado = "buen_stock") <=> (q > 5)

\* C10 as claimed: for every stored product, tiene_stock is true exactly when
\* stock_total > 0.
C10_TieneStockSiiTotalPositivo ==
    \A p \in DOMAIN productos :
        TieneStock(categorias, productos, stock_tallas, p)
            <=> (StockTotal(categorias, productos, stock_tallas, p) > 0)


\* C2 as claimed: whatever the interleaving of the statements of two
\* ImagenProducto.save calls, no product has two primary images.
C2_SaveAtomico ==
    \A p \in ProdIds : Cardinality(Principales(imagenes, p)) <= 1

\* no two stored products share a slug
SlugsUnicos ==
    \A p, q \in DOMAIN productos : p # q => productos[p].slug # productos[q].slug

\* the slug of the save in request t is held by a stored product other than its own
Choca(t) ==
    \E q \in DOMAIN productos \ {peticiones[t].id} : productos[q].slug = peticiones[t].slug

\* requests t and u both stand before the write of a new product, with the same
\* slug, which no stored product holds
CarreraDeAltas(t, u) ==
    /\ t # u
    /\ peticiones[t].pc = "prod_guardar" /\ peticiones[u].pc = "prod_guardar"
    /\ peticiones[t].id # peticiones[u].id
    /\ peticiones[t].id \notin DOMAIN productos /\ peticiones[u].id \notin DOMAIN productos
    /\ peticiones[t].slug = peticiones[u].slug
    /\ \A q \in DOMAIN productos : productos[q].slug # peticiones[t].slug

\* C5: in every interleaving of two requests' saves no two stored products share
\* a slug; a write whose derived or supplied slug is held by a different stored
\* product fails and leaves every stored product as it was, and any other write
\* succeeds; of two racing creates with the same free slug the first write
\* succeeds and the other one's write is then a conflict.
C5_SlugUnico ==
    [][/\ SlugsUnicos'
       /\ \A t \in Peticiones : ProductoSaveGuardar(t) =>
            /\ Choca(t) => (~peticiones'[t].ok /\ productos' = productos)
            /\ ~Choca(t) =>
                /\ peticiones'[t].ok
                /\ productos'[peticiones[t].id].slug = peticiones[t].slug
            /\ \A u \in Peticiones : CarreraDeAltas(t, u) =>
                /\ peticiones'[t].ok
                /\ ~SlugLibre(productos', peticiones[u].id, peticiones[u].slug)]_vars

\* C5's case: two creates with the same slug have both finished, one stored its
\* product and the other got the conflict; the stored product is the winner's.
C5_Witness ==
    \E t, u \in Peticiones :
        /\ peticiones[t].pc = "hecho" /\ peticiones[u].pc = "hecho"
        /\ peticiones[t].insert /\ peticiones[u].insert
        /\ peticiones[t].id # peticiones[u].id
        /\ peticiones[t].slug = peticiones[u].slug
        /\ peticiones[t].ok /\ ~peticiones[u].ok
        /\ DOMAIN productos = {peticiones[t].id}

====
